---- MODULE Spec2Model ----
(***************************************************************************)
(* MeshMonitor desktop shell: the backend process supervisor               *)
(* (desktop/src-tauri/src/lib.rs, main.rs) and the configuration store     *)
(* (desktop/src-tauri/src/config.rs).                                      *)
(*                                                                         *)
(* Threads: "main" runs the setup closure and later the RunEvent::Exit     *)
(* handler; every member of Callers is an execution context on which the   *)
(* UI invokes the commands get_config, save_config and restart_backend.    *)
(* BackendState.process is a Mutex<Option<Child>>: `lock` is the mutex,    *)
(* `slot` the Option<Child>.  Rust's Option is modelled as a sequence of   *)
(* length 0 (None) or 1 (Some).                                            *)
(*                                                                         *)
(* Spec is the supervisor with its threads interleaved, FairSpec is Spec    *)
(* with every thread that is inside a call taking its next step.           *)
(* SpecConfig runs the methods of Config on one record on one thread,      *)
(* SpecPath applies strip_extended_length_prefix to one path.              *)
(***************************************************************************)
EXTENDS Integers, Sequences, FiniteSets, TLC

\* ------------------------------------------------------------------ bounds
\* Number of commands the UI invokes in one behaviour, over all callers.
MaxCalls == 2

\* Longest path given to strip_extended_length_prefix, in code units.
MaxPathLen == 6

Callers == {"ui1", "ui2"}
Threads == {"main"} \cup Callers

\* ------------------------------------------------------------------ Option
None == << >>
Some(x) == << x >>
IsSome(o) == o /= << >>
Unwrap(o) == o[1]

\* ------------------------------------------------------------------ results
\* Result<_, String>: the String is modelled by the kind of failure and the
\* thing it names.
OkRet == [ok |-> TRUE, kind |-> "Ok", what |-> ""]
Err(kind, what) == [ok |-> FALSE, kind |-> kind, what |-> what]
NoRet == [ok |-> FALSE, kind |-> "NoRet", what |-> ""]

\* ------------------------------------------------------------------ config.rs
U16Max == 65535
DefaultMeshtasticPort == 4403
DefaultWebPort == 8080
\* uuid::Uuid::to_string(): 32 hex digits and 4 hyphens.
UuidStrLen == 36
UuidHyphens == 4

FieldNames ==
    << "meshtastic_ip", "meshtastic_port", "web_port", "auto_start",
       "session_secret", "setup_completed" >>

\* generate_secret: two v4 UUIDs, hyphens removed, concatenated.  `n` stands
\* for the random bits: distinct calls draw distinct n.
generate_secret(n) ==
    [tok |-> n, len |-> (UuidStrLen - UuidHyphens) + (UuidStrLen - UuidHyphens)]

\* impl Default for Config
ConfigDefault(n) ==
    [meshtastic_ip |-> "192.168.1.100",
     meshtastic_port |-> DefaultMeshtasticPort,
     web_port |-> DefaultWebPort,
     auto_start |-> FALSE,
     session_secret |-> generate_secret(n),
     setup_completed |-> FALSE]

\* Mutant: the two ports are written under each other's key.
Serialize_PortsSwapped(c) ==
    << << "meshtastic_ip", c.meshtastic_ip >>,
       << "meshtastic_port", c.web_port >>,
       << "web_port", c.meshtastic_port >>,
       << "auto_start", c.auto_start >>,
       << "session_secret", c.session_secret >>,
       << "setup_completed", c.setup_completed >> >>

\* serde_json::to_string_pretty(self): an object with the six fields in
\* declaration order, modelled as a sequence of <<key, value>> pairs.
Serialize(c) ==
    << << "meshtastic_ip", c.meshtastic_ip >>,
       << "meshtastic_port", c.meshtastic_port >>,
       << "web_port", c.web_port >>,
       << "auto_start", c.auto_start >>,
       << "session_secret", c.session_secret >>,
       << "setup_completed", c.setup_completed >> >>

HasField(content, k) == \E i \in 1..Len(content) : content[i][1] = k
Field(content, k) ==
    content[CHOOSE i \in 1..Len(content) : content[i][1] = k][2]

\* serde_json::from_str::<Config>: every field is required (no serde
\* defaults) and the two ports must fit u16.  None stands for the parse error.
Deserialize(content) ==
    IF /\ \A i \in 1..Len(FieldNames) : HasField(content, FieldNames[i])
       /\ Field(content, "meshtastic_port") \in 0..U16Max
       /\ Field(content, "web_port") \in 0..U16Max
    THEN Some([meshtastic_ip |-> Field(content, "meshtastic_ip"),
               meshtastic_port |-> Field(content, "meshtastic_port"),
               web_port |-> Field(content, "web_port"),
               auto_start |-> Field(content, "auto_start"),
               session_secret |-> Field(content, "session_secret"),
               setup_completed |-> Field(content, "setup_completed")])
    ELSE None

\* Config::needs_setup
\* Mutant: setup is never asked for.
needs_setup_Never(c) == FALSE

needs_setup(c) == ~c.setup_completed

\* Config::complete_setup, line 75: the assignment it makes before saving.
\* Mutant: the assignment also clears auto_start.
complete_setup_ClearsAutoStart(c) ==
    [c EXCEPT !.setup_completed = TRUE, !.auto_start = FALSE]

complete_setup(c) == [c EXCEPT !.setup_completed = TRUE]

\* A file cut short by a failed fs::write: fs::write truncates before writing.
Truncated == << >>

\* Files the program may find at start: none, one it wrote earlier (setup
\* finished or not), one it cannot parse.
StoredSecret == [tok |-> 0, len |-> 64]
StoredConfig(done) ==
    [meshtastic_ip |-> "192.168.1.50",
     meshtastic_port |-> DefaultMeshtasticPort,
     web_port |-> 9090,
     auto_start |-> FALSE,
     session_secret |-> StoredSecret,
     setup_completed |-> done]
BadPortContent ==
    [Serialize(StoredConfig(TRUE)) EXCEPT ![3] = << "web_port", U16Max + 1 >>]
InitFiles ==
    {None, Some(BadPortContent),
     Some(Serialize(StoredConfig(TRUE))), Some(Serialize(StoredConfig(FALSE)))}

\* ------------------------------------------------------------------ lib.rs
\* A path is a sequence of code units.  On Windows an OsString may hold an
\* unpaired surrogate ("U+D800"), which is not valid Unicode.
PathUnits == {"\\", "?", "C", "U+D800"}
Paths == UNION {[1..n -> PathUnits] : n \in 0..MaxPathLen}

\* Path::to_string_lossy: every unit that is not valid Unicode is replaced
\* by U+FFFD REPLACEMENT CHARACTER.
to_string_lossy(p) ==
    [i \in 1..Len(p) |-> IF p[i] = "U+D800" THEN "U+FFFD" ELSE p[i]]

\* r"\\?\": two backslashes, a question mark, a backslash
ExtendedPrefix == << "\\", "\\", "?", "\\" >>
\* the offset of &path_str[4..]
PrefixBytes == 4

starts_with(str, prefix) ==
    Len(str) >= Len(prefix) /\ SubSeq(str, 1, Len(prefix)) = prefix

\* lib.rs 13-26: `win` is cfg(windows).
strip_extended_length_prefix(p, win) ==
    IF win THEN
        LET path_str == to_string_lossy(p) IN
        IF starts_with(path_str, ExtendedPrefix)
        THEN SubSeq(path_str, PrefixBytes + 1, Len(path_str))
        ELSE p
    ELSE p

\* The five artifacts start_backend requires, in the order it checks them.
ArtifactOrder ==
    << "node", "server.js", "package.json", "node_modules", "services" >>
Artifacts == {ArtifactOrder[i] : i \in 1..Len(ArtifactOrder)}

RECURSIVE PreflightFrom(_, _)
\* lib.rs 88-128: the chain of `if !path.exists() { return Err(..) }`,
\* from check i on.  The result is the first artifact found missing, or
\* "none" when every check passed.
PreflightFrom(present, i) ==
    IF i > Len(ArtifactOrder) THEN "none"
    ELSE IF ArtifactOrder[i] \notin present THEN ArtifactOrder[i]
    ELSE PreflightFrom(present, i + 1)

\* Mutant: the services check is left out.
Preflight_NoServices(present) == PreflightFrom(present \cup {"services"}, 1)

\* Mutant: the dependency directory is checked first.
Preflight_DepsFirst(present) ==
    IF "node_modules" \notin present THEN "node_modules"
    ELSE PreflightFrom(present, 1)

Preflight(present) == PreflightFrom(present, 1)

\* The artifacts whose exists() returned true before the chain ended.
RECURSIVE CheckedFrom(_, _)
CheckedFrom(present, i) ==
    IF i > Len(ArtifactOrder) \/ ArtifactOrder[i] \notin present THEN {}
    ELSE {ArtifactOrder[i]} \cup CheckedFrom(present, i + 1)

RECURSIVE Digits(_)
\* u16::to_string and the `{}` of format!: the decimal digits of n, most
\* significant first, without leading zeros.
Digits(n) == IF n < 10 THEN << n >> ELSE Digits(n \div 10) \o << n % 10 >>

\* config::get_database_path: <data_dir>/MeshMonitor/meshmonitor.db
DatabasePath == << "data_dir", "MeshMonitor", "meshmonitor.db" >>

\* lib.rs 149-164: the variables set on the Command, from the Config `c`
\* loaded at line 51 and the database path `db` of line 54.
\* Mutant: ALLOWED_ORIGINS is built from the default web port.
BuildEnv_DefaultOrigin(c, db) ==
    [NODE_ENV |-> "production",
     PORT |-> Digits(c.web_port),
     MESHTASTIC_NODE_IP |-> c.meshtastic_ip,
     MESHTASTIC_TCP_PORT |-> Digits(c.meshtastic_port),
     DATABASE_PATH |-> db,
     SESSION_SECRET |-> c.session_secret,
     ALLOWED_ORIGINS |-> << "http://localhost:" >> \o Digits(DefaultWebPort)]

BuildEnv(c, db) ==
    [NODE_ENV |-> "production",
     PORT |-> Digits(c.web_port),
     MESHTASTIC_NODE_IP |-> c.meshtastic_ip,
     MESHTASTIC_TCP_PORT |-> Digits(c.meshtastic_port),
     DATABASE_PATH |-> db,
     SESSION_SECRET |-> c.session_secret,
     ALLOWED_ORIGINS |-> << "http://localhost:" >> \o Digits(c.web_port)]

\* The MutexGuard `process` goes out of scope when the function (lib.rs
\* 206) or the block (main.rs 38 and 79) ends: the mutex is unlocked.
\* Mutant: the guard held by thread `holder` is leaked and the mutex stays
\* locked.
DropGuard_Leaked(holder) == holder

DropGuard(holder) == "free"

\* stop_backend: process.take() leaves None in the slot.
\* Mutant: the handle is read and left in the slot.
Take_Keeps(s) == s

Take(s) == None

\* stop_backend: child.kill() then child.wait(); both results are discarded.
\* After wait returns the child is no longer running.
\* Mutant: the handle is dropped without kill and wait.
KillWait_Dropped(live, c) == live

KillWait(live, c) == live \ {c}

\* stop_backend returns ().
\* Mutant: an empty slot is reported as an error.
StopReturn_ErrWhenIdle(taken) == IF IsSome(taken) THEN "unit" ELSE "error"

StopReturn(taken) == "unit"

\* start_backend line 51: `Config::load()?` returns early on any load error.
\* Mutant: the load error is replaced by the defaults (unwrap_or_default).
LoadPropagates_Never(r) == FALSE

LoadPropagates(r) == ~r.ok

\* Where a command goes on after its stop_backend returned.
AfterStop(o) == IF o = "exit" THEN "exited" ELSE "sb_load"

\* Where a command goes on after its start_backend returned r:
\* restart_backend (main.rs 32) returns the error with `?`, the setup closure
\* (main.rs 72-83) prints it and goes on to the tray.
\* Mutant: the setup closure returns the error of start_backend with `?`.
AfterStart_SetupPropagates(o, r) ==
    IF r.ok THEN "store_lock"
    ELSE IF o = "setup" THEN "setup_failed" ELSE "idle"

AfterStart(o, r) ==
    IF r.ok THEN "store_lock"
    ELSE IF o = "setup" THEN "tray" ELSE "idle"

\* The value restart_backend returns when start_backend returned r.
RetAfterStart(o, r, old) == IF o = "restart" /\ ~r.ok THEN r ELSE old

\* ------------------------------------------------------------------ state
VARIABLES
    pc,          \* each thread's position
    op,          \* the operation each thread is running
    calls,       \* commands invoked so far
    cfg,         \* the Config held by the thread (Option)
    child,       \* the Child returned by start_backend, not yet stored (Option)
    childEnv,    \* the environment that Child was spawned with (Option)
    ret,         \* the value the thread's last command returned
    started,     \* the value the thread's last start_backend returned
    checked,     \* artifacts the current start_backend call found to exist
    attempts,    \* cmd.spawn() calls made by the current start_backend call
    lastStop,    \* what the thread's last stop_backend took and returned
    lastLoad,    \* what the thread's last Config::load did and returned
    slot,        \* BackendState.process: Option<Child>
    slotEnv,     \* the environment the Child in the slot was spawned with
    lock,        \* holder of the mutex, or "free"
    alive,       \* children that are running
    exitedOwn,   \* children with a handle that terminated on their own
    file,        \* config.json: Option of its content
    nextSecret,  \* the next random draw of generate_secret
    saved,       \* a save_config command was executed
    savedOk,     \* a save_config command returned Ok
    afterSave,   \* the caller's restart_backend was invoked after that
    solo,        \* no other supervisor call has run during the caller's
                 \* restart_backend so far
    loadedSecrets, \* secrets returned by successful loads since the last
                 \* save_config that stored a different one
    artifacts,   \* the required artifacts present in the resource directory
    configDirOk, \* dirs::config_dir() is Some
    dataDirOk,   \* dirs::data_dir() is Some
    rec0,        \* Config methods in isolation: the record at the start
    rec,         \* ... the record in memory
    phase,       \* ... the method called on it and how it ended
    got,         \* ... what the Config::load that followed returned
    path,        \* strip_extended_length_prefix: its argument
    windows,     \* ... cfg!(windows)
    out          \* ... its result (Option)

vars ==
    << pc, op, calls, cfg, child, childEnv, ret, started, checked, attempts,
       lastStop, lastLoad, slot, slotEnv, lock, alive, exitedOwn, file,
       nextSecret,
       saved, savedOk, afterSave, solo, loadedSecrets, artifacts,
       configDirOk, dataDirOk, rec0, rec, phase, got, path, windows, out >>

\* The variables of the function-level specifications SpecConfig and
\* SpecPath; the supervisor leaves them alone.
unit == << rec0, rec, phase, got, path, windows, out >>
env == << artifacts, configDirOk, dataDirOk, unit >>
startHist == << started, checked, attempts >>
procs == << slot, slotEnv, lock, alive, exitedOwn, child, childEnv >>
store ==
    << file, nextSecret, saved, savedOk, afterSave, loadedSecrets, lastLoad >>

\* The installations explored: every set of missing artifacts and each
\* unresolvable directory is tried with a configuration whose setup is
\* complete, every configuration file with a complete installation.
OneDefect ==
    \/ artifacts = Artifacts /\ configDirOk /\ dataDirOk
    \/ /\ file = Some(Serialize(StoredConfig(TRUE)))
       /\ \/ configDirOk /\ dataDirOk
          \/ artifacts = Artifacts /\ (configDirOk \/ dataDirOk)

NoStop == [had |-> FALSE, wasAlive |-> FALSE, ret |-> "none"]
NoLoad == [kind |-> "none", frame |-> "none"]

NoGot == [ret |-> NoRet, c |-> None]

\* The function-level variables while the supervisor is explored.
UnitIdle ==
    /\ rec0 = StoredConfig(TRUE)
    /\ rec = StoredConfig(TRUE)
    /\ phase = "none"
    /\ got = NoGot
    /\ path = << >>
    /\ windows = FALSE
    /\ out = None

\* The supervisor right after main.rs 46-48, before the setup closure runs.
Boot ==
    /\ pc = [t \in Threads |-> IF t = "main" THEN "setup_load" ELSE "idle"]
    /\ op = [t \in Threads |-> IF t = "main" THEN "setup" ELSE "none"]
    /\ calls = 0
    /\ cfg = [t \in Threads |-> None]
    /\ child = [t \in Threads |-> None]
    /\ childEnv = [t \in Threads |-> None]
    /\ ret = [t \in Threads |-> NoRet]
    /\ started = [t \in Threads |-> NoRet]
    /\ checked = [t \in Threads |-> {}]
    /\ attempts = [t \in Threads |-> 0]
    /\ lastStop = [t \in Threads |-> NoStop]
    /\ lastLoad = [t \in Threads |-> NoLoad]
    /\ slot = None                       \* main.rs 46-48: Mutex::new(None)
    /\ slotEnv = None
    /\ lock = "free"
    /\ alive = {}
    /\ exitedOwn = {}
    /\ nextSecret = 1
    /\ saved = FALSE
    /\ savedOk = FALSE
    /\ afterSave = [t \in Callers |-> FALSE]
    /\ solo = [t \in Callers |-> FALSE]
    /\ loadedSecrets = {}

Init ==
    /\ Boot
    /\ UnitIdle
    /\ file \in InitFiles
    /\ artifacts \in SUBSET Artifacts
    /\ configDirOk \in BOOLEAN
    /\ dataDirOk \in BOOLEAN
    /\ OneDefect

\* The positions inside stop_backend, start_backend and the store that
\* follows it: a thread there is running a supervisor call.
SupervisorPcs ==
    {"stop_lock", "stop_take", "sb_load", "sb_load_save", "sb_launch",
     "store_lock", "store_write"}

\* solo[t] holds while caller t runs a supervisor call and no other thread
\* has been inside one since t's began.
SoloStep ==
    solo' = [t \in Callers |->
                /\ pc'[t] \in SupervisorPcs
                /\ pc[t] \in SupervisorPcs => solo[t]
                /\ \A u \in Threads \ {t} : pc'[u] \notin SupervisorPcs]

\* ------------------------------------------------------------------ Config::load
\* Config::load is called from the setup closure (main.rs 53), from get_config
\* (main.rs 12) and from start_backend (lib.rs 51).
LoadPcs == {"setup_load", "gc_load", "sb_load"}
LoadSavePcs == {"setup_load_save", "gc_load_save", "sb_load_save"}
Frame(p) ==
    IF p \in {"setup_load", "setup_load_save"} THEN "setup"
    ELSE IF p \in {"gc_load", "gc_load_save"} THEN "get_config"
    ELSE "start"
SaveLabel(p) ==
    IF p = "setup_load" THEN "setup_load_save"
    ELSE IF p = "gc_load" THEN "gc_load_save"
    ELSE "sb_load_save"

\* Config::save, lines 56-65: create_dir_all and fs::write either succeed, or
\* fail leaving the file as it was, or fail after fs::write truncated it.
SaveOutcomes == {"ok", "fail", "fail_truncated"}
FileAfterSave(f, c, o) ==
    IF o = "ok" THEN Some(Serialize(c))
    ELSE IF o = "fail" THEN f
    ELSE Some(Truncated)
SaveResult(o) == IF o = "ok" THEN OkRet ELSE Err("IoFailure", "config write")

\* Config::load returned r (with record c when r.ok) to thread t; ns is the
\* next random draw.  The thread goes on in the caller of load.
LoadDone(t, r, c, ns, kind) ==
    LET f == Frame(pc[t])
        \* main.rs 53: Config::load().unwrap_or_default()
        conf == IF r.ok THEN c ELSE ConfigDefault(ns)
    IN
    /\ lastLoad' = [lastLoad EXCEPT ![t] =
           [kind |-> IF r.ok THEN kind ELSE "failed", frame |-> f]]
    /\ loadedSecrets' =
           IF r.ok THEN loadedSecrets \cup {c.session_secret} ELSE loadedSecrets
    /\ nextSecret' = IF f = "setup" /\ ~r.ok THEN ns + 1 ELSE ns
    /\ IF f = "setup" THEN
           \* main.rs 56 and 70: the setup window, or start_backend
           /\ pc' = [pc EXCEPT ![t] =
                  IF needs_setup(conf) THEN "tray" ELSE "sb_load"]
           /\ cfg' = [cfg EXCEPT ![t] = None]
           /\ UNCHANGED << ret, startHist >>
       ELSE IF f = "get_config" THEN
           /\ pc' = [pc EXCEPT ![t] = "idle"]
           /\ ret' = [ret EXCEPT ![t] = r]
           /\ cfg' = [cfg EXCEPT ![t] = IF r.ok THEN Some(c) ELSE None]
           /\ UNCHANGED startHist
       ELSE IF LoadPropagates(r) THEN
           \* lib.rs 51: start_backend returns the load error
           /\ pc' = [pc EXCEPT ![t] = AfterStart(op[t], r)]
           /\ ret' = [ret EXCEPT ![t] = RetAfterStart(op[t], r, ret[t])]
           /\ started' = [started EXCEPT ![t] = r]
           /\ cfg' = [cfg EXCEPT ![t] = None]
           /\ UNCHANGED << checked, attempts >>
       ELSE
           /\ pc' = [pc EXCEPT ![t] = "sb_launch"]
           /\ cfg' = [cfg EXCEPT ![t] = Some(conf)]
           /\ UNCHANGED << ret, startHist >>

\* Config::load, lines 37-45: resolve the path, test exists(); when the file
\* exists read and parse it, otherwise build the defaults.
ConfigLoad(t) ==
    /\ pc[t] \in LoadPcs
    /\ UNCHANGED << op, calls, procs, lastStop, saved, savedOk, afterSave,
                    file, env >>
    /\ IF ~configDirOk THEN
           LoadDone(t, Err("DirectoryResolution", "config"), NoRet,
                    nextSecret, "failed")
       ELSE IF IsSome(file) THEN
           \E readOk \in BOOLEAN :
               LET parsed == Deserialize(Unwrap(file)) IN
               IF ~readOk THEN
                   LoadDone(t, Err("IoFailure", "config read"), NoRet,
                            nextSecret, "failed")
               ELSE IF ~IsSome(parsed) THEN
                   LoadDone(t, Err("ParseFailure", "config"), NoRet,
                            nextSecret, "failed")
               ELSE
                   LoadDone(t, OkRet, Unwrap(parsed), nextSecret, "existing")
       ELSE
           /\ cfg' = [cfg EXCEPT ![t] = Some(ConfigDefault(nextSecret))]
           /\ nextSecret' = nextSecret + 1
           /\ pc' = [pc EXCEPT ![t] = SaveLabel(pc[t])]
           /\ UNCHANGED << ret, startHist, lastLoad, loadedSecrets >>
    /\ SoloStep

\* Config::load, lines 46-47: config.save()?; Ok(config)
ConfigLoadSave(t) ==
    /\ pc[t] \in LoadSavePcs
    /\ UNCHANGED << op, calls, procs, lastStop, saved, savedOk, afterSave,
                    env >>
    /\ \E o \in SaveOutcomes :
           /\ file' = FileAfterSave(file, Unwrap(cfg[t]), o)
           /\ LoadDone(t, SaveResult(o), Unwrap(cfg[t]), nextSecret, "created")
    /\ SoloStep

\* ------------------------------------------------------------------ commands
\* The UI invokes commands while the application runs: not after the Exit
\* event, and not once the setup closure has failed.
Serving == op["main"] = "setup" /\ pc["main"] /= "setup_failed"

\* A command runs on an idle caller.  The callers are interchangeable, so
\* "ui2" takes a command only while "ui1" is busy.
CanInvoke(t) ==
    /\ pc[t] = "idle"
    /\ calls < MaxCalls
    /\ Serving
    /\ t = "ui2" => pc["ui1"] /= "idle"

\* What a caller keeps of earlier commands is forgotten when it takes a new one.
Forget(t) ==
    /\ started' = [started EXCEPT ![t] = NoRet]
    /\ checked' = [checked EXCEPT ![t] = {}]
    /\ attempts' = [attempts EXCEPT ![t] = 0]
    /\ lastStop' = [lastStop EXCEPT ![t] = NoStop]
    /\ lastLoad' = [lastLoad EXCEPT ![t] = NoLoad]

\* main.rs 27-29: restart_backend is invoked and calls stop_backend.
BeginRestart(t) ==
    /\ CanInvoke(t)
    /\ pc' = [pc EXCEPT ![t] = "stop_lock"]
    /\ op' = [op EXCEPT ![t] = "restart"]
    /\ calls' = calls + 1
    /\ ret' = [ret EXCEPT ![t] = NoRet]
    /\ cfg' = [cfg EXCEPT ![t] = None]
    /\ Forget(t)
    /\ afterSave' = [afterSave EXCEPT ![t] = savedOk]
    /\ UNCHANGED << child, childEnv, slot, slotEnv, lock, alive, exitedOwn,
                    file, nextSecret, saved, savedOk, loadedSecrets, env >>
    /\ SoloStep

\* main.rs 11-13: get_config is invoked and calls Config::load.
BeginGetConfig(t) ==
    /\ CanInvoke(t)
    /\ pc' = [pc EXCEPT ![t] = "gc_load"]
    /\ op' = [op EXCEPT ![t] = "get_config"]
    /\ calls' = calls + 1
    /\ ret' = [ret EXCEPT ![t] = NoRet]
    /\ cfg' = [cfg EXCEPT ![t] = None]
    /\ Forget(t)
    /\ UNCHANGED << child, childEnv, slot, slotEnv, lock, alive, exitedOwn,
                    file, nextSecret, saved, savedOk, afterSave,
                    loadedSecrets, env >>
    /\ SoloStep

\* The records the UI passes to save_config: the stored settings with
\* every value edited.
EditedConfig ==
    [meshtastic_ip |-> "10.0.0.7",
     meshtastic_port |-> DefaultMeshtasticPort + 1,
     web_port |-> 3000,
     auto_start |-> TRUE,
     session_secret |-> [tok |-> -1, len |-> 64],
     setup_completed |-> TRUE]
SaveInputs == {EditedConfig}

\* main.rs 16-18 with Config::save, config.rs 52-66.
SaveConfig(t) ==
    /\ CanInvoke(t)
    /\ \E c \in SaveInputs, o \in SaveOutcomes :
           LET r == IF configDirOk THEN SaveResult(o)
                    ELSE Err("DirectoryResolution", "config")
           IN
           /\ file' = IF configDirOk THEN FileAfterSave(file, c, o) ELSE file
           /\ ret' = [ret EXCEPT ![t] = r]
           /\ savedOk' = (savedOk \/ r.ok)
           /\ loadedSecrets' =
                  IF r.ok /\ ~(loadedSecrets \subseteq {c.session_secret})
                  THEN {} ELSE loadedSecrets
    /\ op' = [op EXCEPT ![t] = "save_config"]
    /\ calls' = calls + 1
    /\ saved' = TRUE
    /\ UNCHANGED afterSave
    /\ cfg' = [cfg EXCEPT ![t] = None]
    /\ Forget(t)
    /\ UNCHANGED << pc, child, childEnv, slot, slotEnv, lock, alive,
                    exitedOwn, nextSecret, env >>
    /\ SoloStep

\* ------------------------------------------------------------------ stop_backend
\* lib.rs 199: state.process.lock().unwrap(), in restart_backend's call
StopLock(t) ==
    /\ pc[t] = "stop_lock"
    /\ lock = "free"
    /\ lock' = t
    /\ pc' = [pc EXCEPT ![t] = "stop_take"]
    /\ UNCHANGED << op, calls, cfg, child, childEnv, ret, startHist, lastStop,
                    slot, slotEnv, alive, exitedOwn, store, env >>
    /\ SoloStep

\* lib.rs 200-206: take the slot's value, kill and wait for the child when
\* there was one, and release the mutex on return.  When the caller goes on
\* into start_backend, that call starts with nothing checked or spawned.
StopTake(t) ==
    /\ pc[t] = "stop_take"
    /\ lock = t
    /\ slot' = Take(slot)
    /\ slotEnv' = None
    /\ alive' = IF IsSome(slot) THEN KillWait(alive, Unwrap(slot)) ELSE alive
    /\ exitedOwn' = exitedOwn \ {slot[i] : i \in 1..Len(slot)}
    /\ lock' = DropGuard(t)
    /\ lastStop' = [lastStop EXCEPT ![t] =
           [had |-> IsSome(slot),
            wasAlive |-> IsSome(slot) /\ Unwrap(slot) \in alive,
            ret |-> StopReturn(slot)]]
    /\ pc' = [pc EXCEPT ![t] = AfterStop(op[t])]
    /\ IF op[t] = "exit" THEN UNCHANGED startHist
       ELSE /\ started' = [started EXCEPT ![t] = NoRet]
            /\ checked' = [checked EXCEPT ![t] = {}]
            /\ attempts' = [attempts EXCEPT ![t] = 0]
    /\ UNCHANGED << op, calls, cfg, child, childEnv, ret, store, env >>
    /\ SoloStep

\* ------------------------------------------------------------------ start_backend
\* start_backend returned r to thread t.
StartReturns(t, r) ==
    /\ pc' = [pc EXCEPT ![t] = AfterStart(op[t], r)]
    /\ ret' = [ret EXCEPT ![t] = RetAfterStart(op[t], r, ret[t])]
    /\ started' = [started EXCEPT ![t] = r]
    /\ cfg' = [cfg EXCEPT ![t] = None]

\* Children the program still refers to: running, or with a handle in the
\* slot or in a thread.
Handles ==
    {slot[i] : i \in 1..Len(slot)}
        \cup UNION {{child[t][i] : i \in 1..Len(child[t])} : t \in Threads}
\* The identity of the next child: one not in use.
NewPid ==
    CHOOSE n \in 1..(Cardinality(alive \cup Handles) + 1) :
        /\ n \notin alive \cup Handles
        /\ \A m \in 1..(n - 1) : m \in alive \cup Handles

\* lib.rs 54-194, after the configuration was loaded: the database and log
\* paths (dirs::data_dir, create_dir_all), the resource directory, the five
\* existence checks, the two log files, the command and the spawn.  Each
\* failure returns at once.
StartLaunch(t) ==
    /\ pc[t] = "sb_launch"
    /\ UNCHANGED << op, calls, lastStop, slot, slotEnv, lock, store, env >>
    /\ \E dirsOk \in BOOLEAN, logsOk \in BOOLEAN, spawnOk \in BOOLEAN :
           IF ~dataDirOk THEN
               /\ StartReturns(t, Err("DirectoryResolution", "data"))
               /\ UNCHANGED << checked, child, childEnv, attempts, alive,
                               exitedOwn >>
           ELSE IF ~dirsOk THEN
               /\ StartReturns(t, Err("IoFailure", "directories"))
               /\ UNCHANGED << checked, child, childEnv, attempts, alive,
                               exitedOwn >>
           ELSE
               /\ checked' = [checked EXCEPT ![t] = CheckedFrom(artifacts, 1)]
               /\ IF Preflight(artifacts) /= "none" THEN
                      /\ StartReturns(t,
                             Err("MissingArtifact", Preflight(artifacts)))
                      /\ UNCHANGED << child, childEnv, attempts, alive,
                                      exitedOwn >>
                  ELSE IF ~logsOk THEN
                      /\ StartReturns(t, Err("IoFailure", "server log"))
                      /\ UNCHANGED << child, childEnv, attempts, alive,
                                      exitedOwn >>
                  ELSE IF ~spawnOk THEN
                      /\ StartReturns(t, Err("SpawnFailure", "node"))
                      /\ attempts' = [attempts EXCEPT ![t] = @ + 1]
                      /\ UNCHANGED << child, childEnv, alive, exitedOwn >>
                  ELSE
                      /\ StartReturns(t, OkRet)
                      /\ attempts' = [attempts EXCEPT ![t] = @ + 1]
                      /\ alive' = alive \cup {NewPid}
                      /\ UNCHANGED exitedOwn
                      /\ child' = [child EXCEPT ![t] = Some(NewPid)]
                      /\ childEnv' = [childEnv EXCEPT ![t] =
                             Some(BuildEnv(Unwrap(cfg[t]), DatabasePath))]
    /\ SoloStep

\* ------------------------------------------------------------------ store
\* main.rs 35 and 75: state.process.lock().unwrap()
StoreLock(t) ==
    /\ pc[t] = "store_lock"
    /\ lock = "free"
    /\ lock' = t
    /\ pc' = [pc EXCEPT ![t] = "store_write"]
    /\ UNCHANGED << op, calls, cfg, child, childEnv, ret, startHist, lastStop,
                    slot, slotEnv, alive, exitedOwn, store, env >>
    /\ SoloStep

\* main.rs 36-38 and 76-77: *process = Some(child).  The value replaced is
\* dropped; dropping a Child neither kills nor waits for it.
StoreWrite(t) ==
    /\ pc[t] = "store_write"
    /\ lock = t
    /\ slot' = child[t]
    /\ slotEnv' = childEnv[t]
    /\ exitedOwn' = exitedOwn \ {slot[i] : i \in 1..Len(slot)}
    /\ child' = [child EXCEPT ![t] = None]
    /\ childEnv' = [childEnv EXCEPT ![t] = None]
    /\ lock' = DropGuard(t)
    /\ pc' = [pc EXCEPT ![t] = IF op[t] = "setup" THEN "tray" ELSE "idle"]
    /\ ret' = [ret EXCEPT ![t] = IF op[t] = "setup" THEN @ ELSE OkRet]
    /\ UNCHANGED << op, calls, cfg, startHist, lastStop, alive, store, env >>
    /\ SoloStep

\* ------------------------------------------------------------------ main
\* main.rs 56-69 and 86-89: the setup window when setup is needed, then the
\* tray; either may fail, and the setup closure then returns the error.
SetupTray ==
    /\ pc["main"] = "tray"
    /\ \E uiOk \in BOOLEAN :
           /\ pc' = [pc EXCEPT !["main"] =
                  IF uiOk THEN "running" ELSE "setup_failed"]
           /\ ret' = [ret EXCEPT !["main"] =
                  IF uiOk THEN OkRet ELSE Err("Ui", "window or tray")]
    /\ UNCHANGED << op, calls, cfg, child, childEnv, startHist, lastStop,
                    slot, slotEnv, lock, alive, exitedOwn, store, env >>
    /\ SoloStep

\* main.rs 106-110 and lib.rs 199: on RunEvent::Exit the handler calls
\* stop_backend, which locks the mutex.
ExitEvent ==
    /\ pc["main"] = "running"
    /\ lock = "free"
    /\ lock' = "main"
    /\ pc' = [pc EXCEPT !["main"] = "stop_take"]
    /\ op' = [op EXCEPT !["main"] = "exit"]
    /\ UNCHANGED << calls, cfg, child, childEnv, ret, startHist, lastStop,
                    slot, slotEnv, alive, exitedOwn, store, env >>
    /\ SoloStep

\* Mutant: a watchdog replaces a child that terminated by a new one.
ChildExits_Respawns ==
    /\ \E p \in alive :
           /\ alive' = (alive \ {p}) \cup {NewPid}
           /\ exitedOwn' = IF p \in Handles THEN exitedOwn \cup {p}
                           ELSE exitedOwn
    /\ UNCHANGED << pc, op, calls, cfg, child, childEnv, ret, startHist,
                    lastStop, slot, slotEnv, lock, store, env >>
    /\ SoloStep

\* The backend is an opaque process: it may terminate on its own.
ChildExits ==
    /\ \E p \in alive :
           /\ alive' = alive \ {p}
           /\ exitedOwn' = IF p \in Handles THEN exitedOwn \cup {p}
                           ELSE exitedOwn
    /\ UNCHANGED << pc, op, calls, cfg, child, childEnv, ret, startHist,
                    lastStop, slot, slotEnv, lock, store, env >>
    /\ SoloStep

Next ==
    \/ \E t \in Threads : ConfigLoad(t)
    \/ \E t \in Threads : ConfigLoadSave(t)
    \/ \E t \in Callers : BeginRestart(t)
    \/ \E t \in Callers : BeginGetConfig(t)
    \/ \E t \in Callers : SaveConfig(t)
    \/ \E t \in Callers : StopLock(t)
    \/ \E t \in Threads : StopTake(t)
    \/ \E t \in Threads : StartLaunch(t)
    \/ \E t \in Threads : StoreLock(t)
    \/ \E t \in Threads : StoreWrite(t)
    \/ SetupTray
    \/ ExitEvent
    \/ ChildExits

Spec == Init /\ [][Next]_vars

\* A thread that is inside an operation takes its next step: a running
\* thread is scheduled, and a thread blocked in lock() goes on once the
\* mutex is unlocked.  kill and wait on a child return (StopTake is one
\* step).  When the UI invokes a command, when the Exit event arrives and
\* when a child terminates is left open.
Step(t) ==
    \/ ConfigLoad(t)
    \/ ConfigLoadSave(t)
    \/ StopLock(t)
    \/ StopTake(t)
    \/ StartLaunch(t)
    \/ StoreLock(t)
    \/ StoreWrite(t)

FairSpec == Spec /\ \A t \in Threads : WF_vars(Step(t))

\* ------------------------------------------------------------------ SpecConfig
\* The methods of Config called one after another on one thread: save or
\* complete_setup on a record, then load.
ConfigValues ==
    [meshtastic_ip : {"192.168.1.100", "meshtastic.local"},
     meshtastic_port : {0, DefaultMeshtasticPort, U16Max},
     web_port : {0, DefaultWebPort, U16Max},
     auto_start : BOOLEAN,
     session_secret : {StoredSecret, generate_secret(1)},
     setup_completed : BOOLEAN]

ConfigInit ==
    /\ Boot
    /\ artifacts = Artifacts
    /\ dataDirOk = TRUE
    /\ configDirOk \in BOOLEAN
    /\ file \in {None, Some(Serialize(StoredConfig(FALSE)))}
    /\ rec0 \in ConfigValues
    /\ rec = rec0
    /\ phase = "new"
    /\ got = NoGot
    /\ path = << >>
    /\ windows = FALSE
    /\ out = None

supervisor ==
    << pc, op, calls, cfg, child, childEnv, ret, started, checked, attempts,
       lastStop, lastLoad, slot, slotEnv, lock, alive, exitedOwn, saved,
       savedOk, afterSave, solo, loadedSecrets >>

\* Config::save on record c, lines 52-66; `done` names the method that
\* called it.
SaveAs(c, done) ==
    \E o \in SaveOutcomes :
        /\ file' = IF configDirOk THEN FileAfterSave(file, c, o) ELSE file
        /\ phase' = IF configDirOk /\ o = "ok" THEN done ELSE "failed"

\* rec.save()
CfgSave ==
    /\ phase = "new"
    /\ SaveAs(rec, "saved")
    /\ UNCHANGED << supervisor, nextSecret, artifacts, configDirOk, dataDirOk,
                    rec0, rec, got, path, windows, out >>

\* rec.complete_setup(), lines 74-77
CfgCompleteSetup ==
    /\ phase = "new"
    /\ rec' = complete_setup(rec)
    /\ SaveAs(complete_setup(rec), "completed")
    /\ UNCHANGED << supervisor, nextSecret, artifacts, configDirOk, dataDirOk,
                    rec0, got, path, windows, out >>

\* Config::load(), lines 36-49, after the method returned
CfgLoad ==
    /\ phase /= "new"
    /\ got = NoGot
    /\ IF ~configDirOk THEN
           /\ got' = [ret |-> Err("DirectoryResolution", "config"), c |-> None]
           /\ UNCHANGED << file, nextSecret >>
       ELSE IF IsSome(file) THEN
           /\ \E readOk \in BOOLEAN :
                  LET parsed == Deserialize(Unwrap(file)) IN
                  got' = IF ~readOk
                         THEN [ret |-> Err("IoFailure", "config read"),
                               c |-> None]
                         ELSE IF ~IsSome(parsed)
                         THEN [ret |-> Err("ParseFailure", "config"),
                               c |-> None]
                         ELSE [ret |-> OkRet, c |-> parsed]
           /\ UNCHANGED << file, nextSecret >>
       ELSE
           \E o \in SaveOutcomes :
               /\ file' = FileAfterSave(file, ConfigDefault(nextSecret), o)
               /\ nextSecret' = nextSecret + 1
               /\ got' = [ret |-> SaveResult(o),
                          c |-> IF o = "ok"
                                THEN Some(ConfigDefault(nextSecret))
                                ELSE None]
    /\ UNCHANGED << supervisor, artifacts, configDirOk, dataDirOk,
                    rec0, rec, phase, path, windows, out >>

ConfigNext == CfgSave \/ CfgCompleteSetup \/ CfgLoad

SpecConfig == ConfigInit /\ [][ConfigNext]_vars

\* ------------------------------------------------------------------ SpecPath
\* strip_extended_length_prefix applied to one path on one platform.
PathInit ==
    /\ Boot
    /\ artifacts = Artifacts
    /\ configDirOk = TRUE
    /\ dataDirOk = TRUE
    /\ file = None
    /\ rec0 = StoredConfig(TRUE)
    /\ rec = StoredConfig(TRUE)
    /\ phase = "none"
    /\ got = NoGot
    /\ path \in Paths
    /\ windows \in BOOLEAN
    /\ out = None

Normalize ==
    /\ out = None
    /\ out' = Some(strip_extended_length_prefix(path, windows))
    /\ UNCHANGED << supervisor, file, nextSecret, artifacts, configDirOk,
                    dataDirOk, rec0, rec, phase, got, path, windows >>

PathNext == Normalize

SpecPath == PathInit /\ [][PathNext]_vars

\* ------------------------------------------------------------------ claims
SlotSet == {slot[i] : i \in 1..Len(slot)}
Held(t) == {child[t][i] : i \in 1..Len(child[t])}
Quiescent ==
    /\ \A t \in Callers : pc[t] = "idle"
    /\ pc["main"] \in {"running", "exited", "setup_failed"}

\* C1: with two restart_backend invocations overlapping on the same
\* BackendState (and no backend started by the setup closure), at most one
\* child spawned by the supervisor is alive at any time.
C1_AtMostOneLiveChild ==
    (op["ui1"] = "restart" /\ op["ui2"] = "restart" /\ attempts["main"] = 0)
        => Cardinality(alive) <= 1

\* C2: with children spawned by restart_backend only (the setup closure
\* started none), whenever a thread holds the mutex every live child other
\* than the one that thread is about to store is the handle in the slot; and
\* once every call has returned, every live child is the handle in the slot.
C2_NoUntrackedChild ==
    attempts["main"] = 0 =>
        /\ \A t \in Threads : lock = t => alive \subseteq SlotSet \cup Held(t)
        /\ Quiescent => alive \subseteq SlotSet

\* C3: once the Exit handler's stop_backend has returned and every command
\* in flight has finished, no child spawned by the supervisor is alive.
C3_NoChildAfterExit ==
    (pc["main"] = "exited" /\ \A t \in Callers : pc[t] = "idle")
        => alive = {}

\* C4: a start_backend call reaches cmd.spawn() only after it found all five
\* artifacts to exist; with any artifact missing it makes no spawn attempt
\* and does not return Ok.
C4_SpawnOnlyAfterPreflight ==
    \A t \in Threads :
        /\ attempts[t] > 0 => checked[t] = Artifacts
        /\ artifacts /= Artifacts => attempts[t] = 0 /\ ~started[t].ok

\* C4 witness: a call attempted the spawn after all five checks passed.
C4_Witness ==
    \E t \in Threads : attempts[t] > 0 /\ checked[t] = Artifacts

\* C5: a missing-artifact error names an artifact that is missing while
\* every artifact earlier in the order node, server.js, package.json,
\* node_modules, services is present.
C5_FirstMissingNamed ==
    \A t \in Threads :
        started[t].kind = "MissingArtifact" =>
            \E i \in 1..Len(ArtifactOrder) :
                /\ started[t].what = ArtifactOrder[i]
                /\ ArtifactOrder[i] \notin artifacts
                /\ \A j \in 1..(i - 1) : ArtifactOrder[j] \in artifacts

\* C5 witness: server.js and node_modules are both missing and the error
\* names server.js.
C5_Witness ==
    \E t \in Threads :
        /\ started[t].kind = "MissingArtifact"
        /\ started[t].what = "server.js"
        /\ "node_modules" \notin artifacts

LoadFailedInStart(t) ==
    lastLoad[t].frame = "start" /\ lastLoad[t].kind = "failed"

\* C6: when Config::load fails inside start_backend, or a per-user directory
\* cannot be resolved, start_backend has returned an error, has made no
\* spawn attempt and holds no child.
C6_NoSpawnOnBadConfig ==
    \A t \in Threads :
        (LoadFailedInStart(t) \/ started[t].kind = "DirectoryResolution") =>
            /\ started[t] /= NoRet
            /\ ~started[t].ok
            /\ attempts[t] = 0
            /\ child[t] = None

\* C6 witness: Config::load failed to read or parse the file inside
\* start_backend, and that start_backend call has returned.
C6_Witness ==
    \E t \in Threads :
        /\ LoadFailedInStart(t)
        /\ started[t].kind \in {"ParseFailure", "IoFailure"}
        /\ pc[t] \in {"idle", "tray"}

StopReturned(t) == pc[t] = "stop_take" /\ pc'[t] /= "stop_take"

\* C7: a stop_backend that holds the mutex while the slot holds a handle
\* returns with the slot empty and that child not running, and returns
\* unit without changing the result of the command that called it.
C7_StopKillsTracked ==
    [][\A t \in Threads :
           (StopReturned(t) /\ IsSome(slot)) =>
               /\ slot' = None
               /\ Unwrap(slot) \notin alive'
               /\ lastStop'[t].ret = "unit"
               /\ ret'[t] = ret[t]]_vars

\* C7 witness: a stop_backend took the handle of a child that had already
\* exited on its own, and returned.
C7_Witness ==
    \E t \in Threads :
        lastStop[t].had /\ ~lastStop[t].wasAlive /\ lastStop[t].ret = "unit"

\* C8: a stop_backend that finds the slot empty returns unit, leaves the slot
\* empty and leaves every child as it was.
C8_StopOnIdleIsNoOp ==
    [][\A t \in Threads :
           (StopReturned(t) /\ slot = None) =>
               /\ slot' = None
               /\ alive' = alive
               /\ lastStop'[t].ret = "unit"
               /\ ret'[t] = ret[t]]_vars

\* C8 witness: the Exit handler's stop_backend found the slot empty after a
\* restart_backend's stop_backend had found it empty too.
C8_Witness ==
    /\ pc["main"] = "exited"
    /\ lastStop["main"].ret = "unit" /\ ~lastStop["main"].had
    /\ \E t \in Callers : lastStop[t].ret = "unit" /\ ~lastStop[t].had

\* C9: the successful loads since the last save_config that stored a
\* different secret all returned the same session_secret.
C9_SecretStable == Cardinality(loadedSecrets) <= 1

\* C10: a load that found no file returned the defaults (ports 4403 and
\* 8080, setup not completed, a 64-character secret), and until a
\* save_config runs the file holds exactly the record it returned.
C10_FirstLoadPersisted ==
    \A t \in Threads :
        (lastLoad[t].kind = "created" /\ IsSome(cfg[t]) /\ ~saved) =>
            /\ Unwrap(cfg[t]).meshtastic_port = 4403
            /\ Unwrap(cfg[t]).web_port = 8080
            /\ ~Unwrap(cfg[t]).setup_completed
            /\ Unwrap(cfg[t]).session_secret.len = 64
            /\ file = Some(Serialize(Unwrap(cfg[t])))

\* C11: a load that follows a successful save of record c, and reads the
\* file, returns Ok with a record equal to c in all six fields; it never
\* fails to parse the file and never substitutes the defaults.
C11_SaveLoadRoundTrip ==
    (phase = "saved" /\ got /= NoGot) =>
        \/ /\ got.ret = OkRet
           /\ IsSome(got.c)
           /\ Unwrap(got.c) = rec0
        \/ got.ret = Err("IoFailure", "config read")

\* C11 witness: a record with the ports at the two ends of u16 was saved
\* and loaded back.
C11_Witness ==
    /\ phase = "saved"
    /\ got.ret = OkRet
    /\ rec0.meshtastic_port = 0
    /\ rec0.web_port = U16Max
    /\ rec0.auto_start

\* C12: needs_setup is the negation of setup_completed; after a successful
\* complete_setup the record in memory is the earlier record with
\* setup_completed true, and a load that follows and reads the file returns
\* that same record.
C12_CompleteSetupPersists ==
    /\ needs_setup(rec) <=> ~rec.setup_completed
    /\ phase = "completed" =>
           /\ ~needs_setup(rec)
           /\ rec.setup_completed
           /\ rec.meshtastic_ip = rec0.meshtastic_ip
           /\ rec.meshtastic_port = rec0.meshtastic_port
           /\ rec.web_port = rec0.web_port
           /\ rec.auto_start = rec0.auto_start
           /\ rec.session_secret = rec0.session_secret
           /\ got /= NoGot =>
                  \/ got = [ret |-> OkRet, c |-> Some(rec)]
                  \/ got.ret = Err("IoFailure", "config read")

\* C12 witness: setup was needed, complete_setup succeeded on a record with
\* auto_start set, and the record was loaded back.
C12_Witness ==
    /\ phase = "completed"
    /\ needs_setup(rec0)
    /\ rec0.auto_start
    /\ got.ret = OkRet

\* The step in which thread t's start_backend call spawned a child.
Spawned(t) == pc[t] = "sb_launch" /\ child'[t] /= child[t]

\* An environment whose seven settings are those of Config c.
EnvMatches(e, c) ==
    /\ e.NODE_ENV = "production"
    /\ e.PORT = Digits(c.web_port)
    /\ e.MESHTASTIC_NODE_IP = c.meshtastic_ip
    /\ e.MESHTASTIC_TCP_PORT = Digits(c.meshtastic_port)
    /\ e.DATABASE_PATH = DatabasePath
    /\ e.SESSION_SECRET = c.session_secret
    /\ e.ALLOWED_ORIGINS = << "http://localhost:" >> \o e.PORT

\* C13: a child spawned by a start_backend call is given NODE_ENV, PORT,
\* MESHTASTIC_NODE_IP, MESHTASTIC_TCP_PORT, DATABASE_PATH, SESSION_SECRET
\* and ALLOWED_ORIGINS from the Config that same call loaded, and the port
\* in ALLOWED_ORIGINS is the value of PORT.
C13_EnvFromLoadedConfig ==
    [][\A t \in Threads :
           Spawned(t) =>
               /\ IsSome(cfg[t])
               /\ lastLoad[t].frame = "start"
               /\ IsSome(childEnv'[t])
               /\ EnvMatches(Unwrap(childEnv'[t]), Unwrap(cfg[t]))]_vars

\* C13 witness: the slot holds a child spawned with the stored web port
\* 9090, not the default.
C13_Witness ==
    /\ IsSome(slotEnv)
    /\ Unwrap(slotEnv).PORT = << 9, 0, 9, 0 >>
    /\ Unwrap(slotEnv).ALLOWED_ORIGINS = << "http://localhost:", 9, 0, 9, 0 >>
    /\ Unwrap(slotEnv).MESHTASTIC_TCP_PORT = << 4, 4, 0, 3 >>

\* C14 as stated: the slot is empty or holds the handle of one child that
\* is alive.
C14_SlotHoldsLiveChild ==
    /\ Len(slot) <= 1
    /\ IsSome(slot) => Unwrap(slot) \in alive

\* C14 amended: the slot is empty or holds the handle of one child, which
\* is either alive or has terminated on its own; no stop_backend has killed
\* it.  No thread holds the same handle.
C14_SlotHoldsUnkilledChild ==
    /\ Len(slot) <= 1
    /\ IsSome(slot) =>
           /\ (Unwrap(slot) \in alive) /= (Unwrap(slot) \in exitedOwn)
           /\ \A t \in Threads : child[t] /= slot

\* C14 witness: the slot holds the handle of a child that terminated on its
\* own while the application runs.
C14_Witness ==
    /\ pc["main"] = "running"
    /\ IsSome(slot)
    /\ Unwrap(slot) \in exitedOwn
    /\ Unwrap(slot) \notin alive

\* The step in which thread t's start_backend call returned an error.
StartFailed(t) ==
    /\ pc[t] \in {"sb_load", "sb_load_save", "sb_launch"}
    /\ started'[t] /= NoRet
    /\ ~started'[t].ok

\* C15: a child comes to life only in the spawn step of a start_backend call
\* made by the setup closure or by an invoked restart_backend, one child per
\* step; a start_backend call makes at most one spawn attempt; and a call
\* that failed leaves start_backend for its caller's continuation (the tray
\* for the setup closure, the return for restart_backend) without trying
\* again.
C15_SpawnOnlyInInvokedStart ==
    [][/\ ~(alive' \subseteq alive) =>
              \E t \in Threads :
                  /\ Spawned(t)
                  /\ op[t] \in {"setup", "restart"}
                  /\ attempts[t] = 0
                  /\ alive' = alive \cup {Unwrap(child'[t])}
       /\ \A t \in Threads :
              /\ attempts'[t] <= 1
              /\ StartFailed(t) =>
                     /\ pc'[t] = (IF op[t] = "setup" THEN "tray" ELSE "idle")
                     /\ alive' = alive]_vars

\* C15 witness: a restart_backend whose spawn failed has returned after its
\* one attempt, and the child stored by the setup closure has terminated on
\* its own; no child is alive.
C15_Witness ==
    /\ pc["main"] = "running"
    /\ IsSome(slot) /\ Unwrap(slot) \in exitedOwn
    /\ alive = {}
    /\ \E t \in Callers :
           /\ pc[t] = "idle"
           /\ started[t].kind = "SpawnFailure"
           /\ attempts[t] = 1

\* C16: on Windows a path that begins with the four units \\?\ is returned
\* with exactly those four units removed and a path without them is returned
\* unchanged; on any other platform every path is returned unchanged.
C16_PrefixStripped ==
    IsSome(out) =>
        Unwrap(out) =
            IF windows /\ starts_with(path, ExtendedPrefix)
            THEN SubSeq(path, Len(ExtendedPrefix) + 1, Len(path))
            ELSE path

\* The start_backend call of the setup closure has returned an error.
StartupStartFailed ==
    /\ op["main"] = "setup"
    /\ started["main"] /= NoRet
    /\ ~started["main"].ok

C18_RestartUsesSavedConfig ==
    [][\A t \in Callers :
           (pc[t] = "store_write" /\ pc'[t] = "idle" /\ afterSave[t]) =>
               /\ IsSome(slot')
               /\ IsSome(slotEnv')
               /\ EnvMatches(Unwrap(slotEnv'), EditedConfig)]_vars

\* C19: when a restart_backend during which no other supervisor call ran
\* returns the error of its start_backend call, the slot is empty and no
\* child spawned by the supervisor is alive.
C19_FailedRestartLeavesNoChild ==
    [][\A t \in Callers :
           (op[t] = "restart" /\ StartFailed(t) /\ solo[t]) =>
               /\ pc'[t] = "idle"
               /\ ~ret'[t].ok
               /\ slot' = None
               /\ alive' = {}]_vars

\* The step in which the Config::load of the setup closure returned.
SetupLoaded == Frame(pc["main"]) = "setup" /\ Frame(pc'["main"]) /= "setup"

\* The file holds a record whose setup is complete.
StoredComplete(f) ==
    /\ IsSome(f)
    /\ IsSome(Deserialize(Unwrap(f)))
    /\ Unwrap(Deserialize(Unwrap(f))).setup_completed

\* The setup closure went to the tray without calling start_backend.
StartSkipped ==
    /\ op["main"] = "setup"
    /\ lastLoad["main"].frame = "setup"
    /\ pc["main"] \in {"tray", "running", "setup_failed"}

\* C20: the setup closure calls start_backend only when its Config::load
\* read and parsed a stored record with setup_completed true; when the load
\* failed or returned a record that needs setup it goes to the tray with no
\* start_backend call made; from then on the setup closure spawns nothing,
\* every child that comes to life or enters the slot does so in a step of a
\* caller's restart_backend, and while the UI has invoked no command the
\* slot is empty and no child is alive.
C20_StartOnlyWhenSetupComplete ==
    [][/\ SetupLoaded =>
              IF pc'["main"] = "sb_load"
              THEN /\ lastLoad'["main"].kind = "existing"
                   /\ StoredComplete(file)
              ELSE /\ pc'["main"] = "tray"
                   /\ \/ lastLoad'["main"].kind \in {"failed", "created"}
                      \/ ~StoredComplete(file)
                   /\ started'["main"] = NoRet
       /\ StartSkipped' =>
              /\ attempts'["main"] = 0
              /\ child'["main"] = None
              /\ calls' = 0 => slot' = None /\ alive' = {}
       /\ (/\ StartSkipped
           /\ ~(alive' \subseteq alive) \/ slot' \notin {slot, None}) =>
              \E t \in Callers :
                  /\ op[t] = "restart"
                  /\ pc[t] \in {"sb_launch", "store_write"}
                  /\ pc'[t] /= pc[t]]_vars

\* C20 witness: the stored file could not be parsed, the defaults were
\* substituted, and the application runs with the slot empty and no child
\* alive.
C20_Witness ==
    /\ StartSkipped
    /\ file = Some(BadPortContent)
    /\ lastLoad["main"].kind = "failed"
    /\ pc["main"] = "running"
    /\ slot = None
    /\ alive = {}

\* The positions at which a thread holds the MutexGuard.
CriticalPcs == {"stop_take", "store_write"}

\* C21: the mutex is held only by a thread between its lock() and the end
\* of the guard's scope, so no thread holds it after its operation returned
\* and none holds it where it calls lock(); and every thread that is inside
\* stop_backend, start_backend or the store (the startup start, a
\* restart_backend, the Exit handler's stop_backend) leaves it again; and a
\* locked mutex is unlocked again, so the Exit handler's lock() never waits
\* for ever.
C21_NoDeadlock ==
    /\ [](\A t \in Threads :
             /\ lock = t => pc[t] \in CriticalPcs
             /\ pc[t] \in {"stop_lock", "store_lock"} => lock /= t
             /\ pc[t] \notin SupervisorPcs => lock /= t)
    /\ \A t \in Threads :
           (pc[t] \in SupervisorPcs) ~> (pc[t] \notin SupervisorPcs)
    /\ (lock /= "free") ~> (lock = "free")

\* C21 witness: one caller holds the mutex in stop_backend while the other
\* caller waits for it in stop_backend and the setup closure waits for it
\* to store the child it spawned.
C21_Witness ==
    /\ lock = "ui1" /\ pc["ui1"] = "stop_take"
    /\ pc["ui2"] = "stop_lock"
    /\ pc["main"] = "store_lock"

====
